---- MODULE Spec2Model ----
(***************************************************************************)
(* HKDF (RFC 5869) built from an HMAC primitive: src/src/main.rs.          *)
(*                                                                         *)
(* main() runs extract and expand of the custom implementation, then the   *)
(* library HKDF on the same inputs, and asserts that both outputs agree.   *)
(* The model follows main() statement by statement; the loop of expand is  *)
(* one step per iteration.  Byte strings are sequences over 0..255.        *)
(***************************************************************************)
EXTENDS Integers, Sequences, FiniteSets, TLC

(***************************************************************************)
(* Program constants.                                                      *)
(***************************************************************************)
\* ALGO_HMAC.len() / ALGO_HKDF.len(): digest length of HMAC-SHA256, octets
HashLen == 32
\* u8::MAX
U8Max == 255

(***************************************************************************)
(* Bounds of the model.                                                    *)
(***************************************************************************)
\* every requested length 0..MaxSmallLen is explored
MaxSmallLen == 66
\* lengths within MaxDelta octets of a large block boundary are explored
MaxDelta == 1

\* b"secret input keying material"
MainIkm ==
  << 115, 101, 99, 114, 101, 116, 32, 105, 110, 112, 117, 116, 32, 107, 101,
     121, 105, 110, 103, 32, 109, 97, 116, 101, 114, 105, 97, 108 >>
\* b"implement hkdf from scratch using hmac!!"
MainInfo ==
  << 105, 109, 112, 108, 101, 109, 101, 110, 116, 32, 104, 107, 100, 102, 32,
     102, 114, 111, 109, 32, 115, 99, 114, 97, 116, 99, 104, 32, 117, 115,
     105, 110, 103, 32, 104, 109, 97, 99, 33, 33 >>
\* vec![]
MainSalt == << >>
\* ALGO_HMAC.len(), the length main() asks for
MainLen == HashLen

\* inputs explored: those of main() and variations around them
Salts == { MainSalt, <<0, 255, 7>> }
Ikms  == { MainIkm, << >> }
Infos == { MainInfo, << >> }

\* block boundaries around the largest block counts
BigBlocks == { U8Max - 1, U8Max, U8Max + 1 }
BigLens == { k * HashLen + d : k \in BigBlocks, d \in (0 - MaxDelta)..MaxDelta }
\* a block count that is 0 again after truncation to 16 bits
HugeLens == { 65536 * HashLen, 65536 * HashLen + HashLen + 1 }
Lens == (0..MaxSmallLen) \cup BigLens \cup HugeLens
\* lengths of the calls that are compared pairwise
PairLens == { 0, 1, HashLen - 1, HashLen, HashLen + 1, 2 * HashLen,
              2 * HashLen + MaxDelta, (U8Max - 1) * HashLen - MaxDelta,
              (U8Max - 1) * HashLen + 1 }

(***************************************************************************)
(* The keyed MAC (hmac::Key::new + hmac::sign of the library).  The        *)
(* library is outside the repository; it is represented by a concrete      *)
(* deterministic function of (key, message) with a HashLen-octet result    *)
(* that accepts the empty key and the empty message.                       *)
(***************************************************************************)
\* modulus of the running checksum
MacMod == 32749

\* The checksum absorbs one octet b by h |-> (33*h + b + 1) % MacMod.  The
\* octets lo..hi of s together act as the affine map h |-> (a*h + c) % MacMod,
\* computed by halving the range.
RECURSIVE MacAbsorb(_, _, _)
MacAbsorb(s, lo, hi) ==
  IF lo > hi THEN [ a |-> 1, c |-> 0 ]
  ELSE IF lo = hi THEN [ a |-> 33, c |-> s[lo] + 1 ]
  ELSE LET mid == (lo + hi) \div 2
           l == MacAbsorb(s, lo, mid)
           r == MacAbsorb(s, mid + 1, hi)
       IN  [ a |-> (r.a * l.a) % MacMod, c |-> (r.a * l.c + r.c) % MacMod ]

MacFold(h, s) ==
  LET m == MacAbsorb(s, 1, Len(s)) IN (m.a * h + m.c) % MacMod

Mac(k, msg) ==
  LET kh == MacFold(5381, k)
      mh == MacFold((kh + Len(k) + 1) % MacMod, msg)
  IN  [ j \in 1..HashLen |-> (mh * j + kh + 7 * j) % 256 ]

(***************************************************************************)
(* Pieces of extract and expand.                                           *)
(***************************************************************************)
\* variant: key and message exchanged
ExtractPrkSwapped(s, m) == Mac(m, s)

\* extract: hmac::sign(Key::new(salt), ikm)
ExtractPrk(s, m) == Mac(s, m)

\* variant: the quotient rounded down
BlockCountFloor(l) == l \div HashLen

\* variant: one more than the quotient rounded down
BlockCountPlusOne(l) == l \div HashLen + 1

\* expand: n = (len as f64 / HashLen as f64).ceil() as u64.  The division by
\* 32 is exact in f64 for every len below 2^53, so the ceiling is exact.
BlockCount(l) == (l + HashLen - 1) \div HashLen

\* variant: the count is compared after its truncation to 8 bits
CountFitsAfterCast(c) == (c % 256) < U8Max

\* expand: the condition of assert!(n < u8::MAX.into())
CountFits(c) == c < U8Max

\* expand: n as u8
AsU8(c) == c % 256

\* variant: the counter octet starts at 0
HmacDataZeroBased(prev, inf, c) == prev \o inf \o << c - 1 >>

\* variant: info placed before the previous block
HmacDataInfoFirst(prev, inf, c) == inf \o prev \o << c >>

\* expand: [&prev_t, info, &[i]].concat()
HmacData(prev, inf, c) == prev \o inf \o << c >>

\* variant: the range 1..n without its last value
HasNextExclusive(c, last) == c < last - 1

\* expand: for i in 1..=n, whether the range holds a value after c
HasNext(c, last) == c < last

\* variant: the last l octets are kept
TruncateTail(s, l) ==
  SubSeq(s, IF l < Len(s) THEN Len(s) - l + 1 ELSE 1, Len(s))

\* expand: okm.into_iter().take(len).collect()
Truncate(s, l) == SubSeq(s, 1, IF l < Len(s) THEN l ELSE Len(s))

(***************************************************************************)
(* RFC 5869 as quoted in the comments above extract and expand; it is the  *)
(* contract of the library HKDF that main() compares against.              *)
(***************************************************************************)
\* PRK = HMAC-Hash(salt, IKM)
RfcExtract(s, m) == Mac(s, m)

\* T(c) | T(c+1) | ... | T(last), given prev = T(c-1)
RECURSIVE RfcStream(_, _, _, _, _)
RfcStream(p, inf, c, last, prev) ==
  IF c > last THEN << >>
  ELSE LET tc == Mac(p, prev \o inf \o << c >>)
       IN  tc \o RfcStream(p, inf, c + 1, last, tc)

\* N = ceil(L/HashLen)
RfcN(l) == IF l % HashLen = 0 THEN l \div HashLen ELSE l \div HashLen + 1

\* OKM = first L octets of T
RfcExpand(p, inf, l) == SubSeq(RfcStream(p, inf, 1, RfcN(l), << >>), 1, l)

\* the largest L of the RFC: 255*HashLen
MaxOkmLen == 255 * HashLen

\* L <= 255*HashLen
RfcValidLen(l) == l <= MaxOkmLen

VARIABLES
  salt, ikm, info, len,   \* inputs of the derivation
  pc,                     \* position in main / expand
  prk,                    \* Prk.data
  okm,                    \* expand: okm; after return custom_okm.data
  n,                      \* expand: n
  i,                      \* expand: loop variable
  prev_t,                 \* expand: prev_t
  hmac_data,              \* expand: hmac_data of the latest iteration
  key,                    \* raw key of the latest hmac::Key::new
  signs,                  \* hmac::sign calls made by the function running
  awslc_okm,              \* main: awslc_okm
  round,                  \* which derivation of the caller is running
  first                   \* outcome of the caller's first derivation

vars == << salt, ikm, info, len, pc, prk, okm, n, i, prev_t, hmac_data, key,
           signs, awslc_okm, round, first >>

inputs == << salt, ikm, info, len >>

\* variant: the previous block of an earlier call is kept
InitialTStale == prev_t

\* expand: T(0) = empty string (zero length)
InitialT == << >>

NoCall == [ prk |-> << >>, okm |-> << >>, len |-> 0 ]

InitLocals ==
  /\ pc = "extract"
  /\ prk = << >>
  /\ okm = << >>
  /\ n = 0
  /\ i = 0
  /\ prev_t = << >>
  /\ hmac_data = << >>
  /\ key = << >>
  /\ signs = 0
  /\ awslc_okm = << >>
  /\ round = 1
  /\ first = NoCall

Init ==
  /\ salt \in Salts
  /\ ikm \in Ikms
  /\ info \in Infos
  /\ len \in Lens
  /\ InitLocals

InitPair ==
  /\ salt \in Salts
  /\ ikm \in Ikms
  /\ info \in Infos
  /\ len \in PairLens
  /\ InitLocals

\* extract(&salt, &ikm)
Extract ==
  /\ pc = "extract"
  /\ key' = salt
  /\ prk' = ExtractPrk(salt, ikm)
  /\ signs' = 1
  /\ pc' = "expand"
  /\ UNCHANGED << inputs, okm, n, i, prev_t, hmac_data, awslc_okm, round,
                  first >>

\* expand, up to the loop: okm = Vec::new(), the block count and its
\* assertion, prev_t = vec![]
ExpandStart ==
  /\ pc = "expand"
  /\ signs' = 0
  /\ IF CountFits(BlockCount(len))
       THEN /\ n' = AsU8(BlockCount(len))
            /\ okm' = << >>
            /\ prev_t' = InitialT
            /\ i' = 1
            /\ pc' = IF 1 <= AsU8(BlockCount(len)) THEN "loop" ELSE "truncate"
       ELSE /\ pc' = "panic_count"
            /\ okm' = << >>
            /\ UNCHANGED << n, prev_t, i >>
  /\ UNCHANGED << inputs, prk, hmac_data, key, awslc_okm, round, first >>

\* expand, one iteration of for i in 1..=n
ExpandBlock ==
  /\ pc = "loop"
  /\ hmac_data' = HmacData(prev_t, info, i)
  /\ key' = prk
  /\ signs' = signs + 1
  /\ prev_t' = Mac(prk, HmacData(prev_t, info, i))
  /\ okm' = okm \o Mac(prk, HmacData(prev_t, info, i))
  /\ IF HasNext(i, n)
       THEN i' = i + 1 /\ pc' = "loop"
       ELSE i' = i /\ pc' = "truncate"
  /\ UNCHANGED << inputs, prk, n, awslc_okm, round, first >>

\* expand, after the loop: truncation, the length assertion, return
ExpandFinish ==
  /\ pc = "truncate"
  /\ okm' = Truncate(okm, len)
  /\ pc' = IF Len(Truncate(okm, len)) = len THEN "expanded" ELSE "panic_len"
  /\ UNCHANGED << inputs, prk, n, i, prev_t, hmac_data, key, signs,
                  awslc_okm, round, first >>

\* main: the library HKDF on the same inputs; expand and fill are unwrapped
Reference ==
  /\ pc = "expanded"
  /\ round = 1
  /\ IF RfcValidLen(len)
       THEN /\ awslc_okm' = RfcExpand(RfcExtract(salt, ikm), info, len)
            /\ pc' = "compare"
       ELSE /\ awslc_okm' = awslc_okm
            /\ pc' = "panic_ref"
  /\ UNCHANGED << inputs, prk, okm, n, i, prev_t, hmac_data, key, signs,
                  round, first >>

\* main: assert_eq!(custom_okm.data, awslc_okm)
Compare ==
  /\ pc = "compare"
  /\ pc' = IF okm = awslc_okm THEN "exit0" ELSE "panic_cmp"
  /\ UNCHANGED << inputs, prk, okm, n, i, prev_t, hmac_data, key, signs,
                  awslc_okm, round, first >>

\* a caller that derives a second time from the same salt, ikm and info
Again ==
  /\ pc = "expanded"
  /\ round = 1
  /\ first' = [ prk |-> prk, okm |-> okm, len |-> len ]
  /\ round' = 2
  /\ len' \in PairLens
  /\ pc' = "extract"
  /\ UNCHANGED << salt, ikm, info, prk, okm, n, i, prev_t, hmac_data, key,
                  signs, awslc_okm >>

Next ==
  \/ Extract
  \/ ExpandStart
  \/ ExpandBlock
  \/ ExpandFinish
  \/ Reference
  \/ Compare

NextPair ==
  \/ Extract
  \/ ExpandStart
  \/ ExpandBlock
  \/ ExpandFinish
  \/ Again

Spec == Init /\ [][Next]_vars

SpecPair == InitPair /\ [][NextPair]_vars

(***************************************************************************)
(* Properties.                                                             *)
(***************************************************************************)
MainScenario ==
  salt = MainSalt /\ ikm = MainIkm /\ info = MainInfo /\ len = MainLen

Panics == { "panic_count", "panic_len", "panic_ref", "panic_cmp" }
Returned == { "expanded", "compare", "exit0" }

\* C1: expand returns an OKM for every length L <= 255*HashLen, the maximum
\* L = 255*HashLen with block count 255 included: the block-count assertion
\* never fails for such an L.
C1_ValidLengthSucceeds == len <= MaxOkmLen => pc # "panic_count"

\* C2: for every length L > 255*HashLen expand goes from its entry straight
\* to the failed block-count assertion: no iteration runs, no hmac::sign
\* call is made and no OKM is returned.
C2_TooLongAborts ==
  len > MaxOkmLen =>
    /\ pc \in { "extract", "expand", "panic_count" }
    /\ pc = "panic_count" => signs = 0 /\ okm = << >>

C2_Witness == len = MaxOkmLen + 1 /\ pc = "panic_count"

\* C3: for every L <= 255*HashLen the buffer that reaches the truncation
\* holds at least L octets, the length assertion after it never fails, and
\* the OKM that expand returns has exactly L octets.
C3_LengthExact ==
  len <= MaxOkmLen =>
    /\ pc = "truncate" => Len(okm) >= len
    /\ pc # "panic_len"
    /\ pc \in Returned => Len(okm) = len

C3_Witness ==
  pc = "expanded" /\ len > HashLen /\ len % HashLen # 0 /\ Len(okm) = len

\* C4: every block of expand is hmac::sign under the unchanged PRK of
\* (previous block | info | block number), the block number counted from 1
\* and the block before the first one empty; blocks are appended in that
\* order; the OKM returned is the first L octets of T(1) | ... | T(N) with
\* N = ceil(L/HashLen).
C4_BlockStep ==
  /\ (pc = "expand" /\ pc' = "loop") => prev_t' = << >> /\ okm' = << >>
  /\ pc = "loop" =>
       /\ key' = prk
       /\ prk' = prk
       /\ hmac_data' = prev_t \o info \o << signs + 1 >>
       /\ prev_t' = Mac(key', hmac_data')
       /\ okm' = okm \o prev_t'
       /\ signs' = signs + 1
  /\ pc = "truncate" => okm' = SubSeq(okm, 1, len)

C4_Chaining ==
  /\ [][C4_BlockStep]_vars
  /\ [](pc \in Returned => okm = RfcExpand(prk, info, len))

C4_Witness ==
  pc = "expanded" /\ len > 2 * HashLen /\ len % HashLen # 0 /\ info # << >>

\* C5: when the same PRK and info are expanded to two lengths L1 < L2, the
\* OKM of length L1 is the first L1 octets of the OKM of length L2.
C5_PrefixConsistency ==
  (round = 2 /\ pc = "expanded") =>
    /\ first.len < len => first.okm = SubSeq(okm, 1, first.len)
    /\ len < first.len => okm = SubSeq(first.okm, 1, len)

C5_Witness ==
  /\ round = 2
  /\ pc = "expanded"
  /\ first.len > HashLen
  /\ first.len < len
  /\ first.len % HashLen # 0

\* C6: extract cannot fail; for every salt and ikm, empty ones included, it
\* makes one hmac::sign call keyed with the salt over the ikm, and the PRK is
\* that digest, HashLen octets long and so not empty.
C6_ExtractStep ==
  pc = "extract" =>
    /\ pc' = "expand"
    /\ key' = salt
    /\ prk' = Mac(salt, ikm)
    /\ signs' = 1

C6_Extract ==
  /\ [][C6_ExtractStep]_vars
  /\ [](pc # "extract" => Len(prk) = HashLen /\ prk # << >>)

C6_Witness ==
  pc = "expand" /\ salt = << >> /\ ikm = << >> /\ Len(prk) = HashLen

\* C7: whenever main reaches its comparison, the OKM of extract and expand
\* equals the OKM of the library HKDF on the same salt, ikm, info and L, so
\* the equality assertion never fails; with the inputs of main() the program
\* never aborts and ends at its normal exit.
C7_OracleEquivalence ==
  /\ pc \in { "compare", "exit0" } => okm = awslc_okm /\ Len(okm) = len
  /\ pc # "panic_cmp"
  /\ MainScenario => pc \notin Panics

C7_Witness == MainScenario /\ pc = "exit0" /\ Len(awslc_okm) = HashLen

\* C8: expand always terminates: every step inside expand lowers a measure
\* that starts at U8Max + 2 and never goes below 0.  When its loop is over
\* it has made exactly N = ceil(L/HashLen) hmac::sign calls, never more than
\* 255; the loop variable goes through 1, 2, ..., N in steps of one and
\* stays within 8 bits.
C8_Measure ==
  IF pc = "expand" THEN U8Max + 2
  ELSE IF pc = "loop" THEN U8Max + 1 - signs
  ELSE IF pc = "truncate" THEN 1
  ELSE 0

C8_Step ==
  /\ pc \in { "expand", "loop", "truncate" } => C8_Measure' < C8_Measure
  /\ (pc = "loop" /\ pc' = "loop") => i' = i + 1
  /\ (pc = "loop" /\ pc' = "truncate") => i = RfcN(len)

C8_Termination ==
  /\ [][C8_Step]_vars
  /\ [](C8_Measure >= 0)
  /\ [](pc \in { "truncate" } \cup Returned => signs = RfcN(len))
  /\ [](pc \in { "loop", "truncate" } => signs <= U8Max)
  /\ [](pc = "loop" => i = signs + 1 /\ i >= 1 /\ i <= n /\ n <= U8Max)

C8_Witness == pc = "truncate" /\ signs = U8Max - 1 /\ i = U8Max - 1

\* C9: L = 0 gives an empty OKM without any block; when L is a positive
\* multiple of HashLen the truncation removes nothing, and L = HashLen is
\* exactly one block; for any other L the truncation removes fewer than
\* HashLen octets, all from the end of the last block.
C9_BeforeTruncation ==
  pc = "truncate" =>
    /\ len = 0 => okm = << >> /\ signs = 0
    /\ (len > 0 /\ len % HashLen = 0) => Len(okm) = len
    /\ len = HashLen => signs = 1
    /\ len % HashLen # 0 =>
         /\ Len(okm) - len >= 1
         /\ Len(okm) - len < HashLen
         /\ Len(okm) = signs * HashLen

C9_TruncateStep ==
  pc = "truncate" =>
    /\ okm' = SubSeq(okm, 1, len)
    /\ (len % HashLen = 0) => okm' = okm

C9_Boundaries ==
  /\ []C9_BeforeTruncation
  /\ [][C9_TruncateStep]_vars
  /\ []((pc \in Returned /\ len = 0) => okm = << >>)

C9_Witness ==
  pc = "expanded" /\ len = HashLen /\ signs = 1 /\ Len(okm) = HashLen

\* C10: a second extract and expand on the same salt, ikm, info and L gives
\* the same PRK and the same OKM as the first; nothing left over from the
\* first derivation influences the second.
C10_Deterministic ==
  (round = 2 /\ len = first.len) =>
    /\ pc \notin Panics
    /\ pc \in { "expand", "loop", "truncate", "expanded" } => prk = first.prk
    /\ pc = "expanded" => okm = first.okm

C10_Witness ==
  round = 2 /\ pc = "expanded" /\ len = first.len /\ len > 2 * HashLen

====
